---- MODULE Spec2Model ----
(***************************************************************************)
(* State-machine model of the batch reorganisation engine of tag2dir      *)
(* (src/app/server.py): the move handler api_move, the undo handler       *)
(* api_undo_move and the bounded in-memory ledger move_history.           *)
(*                                                                         *)
(* A path is a record [dir, stem, ctrs, ext].  It stands for the string   *)
(*   dir "/" stem " (c1)" " (c2)" ... ext                                 *)
(* so that "photo (1).jpg" is [stem |-> "photo", ctrs |-> <<1>>,          *)
(* ext |-> ".jpg"], whether the name was typed by a user or produced by   *)
(* unique_target.  A directory is [root, sub]: root "/" sub, sub empty    *)
(* for a top directory.  Names of persons and directories are sequences   *)
(* of one-character strings.                                               *)
(***************************************************************************)
EXTENDS Integers, Sequences, FiniteSets, TLC

VARIABLES
    fs,              \* the files on disk: path -> content
    dirs,            \* the directories on disk
    move_history,    \* server.py:16, the ledger
    pc,              \* "idle", or the handler that is running: "move", "undo"
    dest_root,       \* api_move local
    dry_run,         \* api_move local
    moved,           \* api_move local
    errors,          \* api_move / api_undo_move local
    count,           \* api_undo_move local
    strategy,        \* api_undo_move local
    undone,          \* api_undo_move local
    undone_batches,  \* api_undo_move local
    batch,           \* api_undo_move local: the popped batch
    moved_list,      \* api_undo_move local: records of the popped batch not yet visited
    resp,            \* the response of the last handler that returned
    items,           \* history: plan items consumed by the running api_move
    fsPre,           \* history: fs when the running / last handler began
    dirsPre,         \* history: dirs when the running / last handler began
    histPre,         \* history: move_history when the running / last handler began
    fsPrev,          \* history: while roundTrip, fs before the move call that the undo follows
    roundTrip,       \* history: the running / last handler is an undo with count 1 that
                     \* directly follows a move call that recorded a batch
    shadow,          \* history: moved / errors of the dry run of the same plan from fsPre
    ulog,            \* history: <<batch id, index>> of each record visited by the running / last undo
    nextId,          \* history: id given to the next recorded batch
    popped,          \* history: ids of the batches popped by undo
    evicted,         \* history: ids of the batches that were among the oldest in excess
    fault,           \* history: "rm" when os.remove failed in the last item or record
                     \* step, "rm_rb" when the rollback failed too, else "none"
    HAS_EXIFTOOL,    \* utils_metadata.py:6, probed once when the process starts
    pulls,           \* how often the server has asked the generator for its next event
    spc,             \* "idle", or the position of the running scan handler
    src_dir,         \* api_scan / api_scan_stream local
    scan_iter,       \* the paths scan_images(src_dir) has still to yield
    idx,             \* api_scan_stream.generate local
    results,         \* api_scan local
    events,          \* the events the stream of the running / last call has yielded
    sresp,           \* the response of the last scan handler that returned
    discovered,      \* history: the paths of the traversal of the running / last call
    extracted,       \* history: the extraction calls of the running / last call
    thr,             \* the locals and the position of each request thread
    calls            \* history: the ledger operations of the threads' calls

scanVars == <<HAS_EXIFTOOL, spc, src_dir, scan_iter, idx, results, events, sresp,
              discovered, extracted, pulls>>

vars == <<fs, dirs, move_history, pc, dest_root, dry_run, moved, errors, count,
          strategy, undone, undone_batches, batch, moved_list, resp, items, fsPre,
          dirsPre, histPre, fsPrev, roundTrip, shadow, ulog, nextId, popped,
          evicted, fault, scanVars, thr, calls>>

-----------------------------------------------------------------------------
(* Bounds of the model *)

MaxPlan == 2        \* plan items per move call
MaxBatches == 2     \* recorded batches (beyond the ledger's capacity in SpecLedger)
MaxDepth == 1       \* counters already in the name of a plan item's source
MaxName == 2        \* characters of a person name in SpecNames
MaxCalls == 2       \* calls served by the request threads in SpecThreads
MaxFiles == 3       \* files on disk in SpecFault, copies left by failed rollbacks included

(* Program constants *)

MOVE_HISTORY_MAX == 20

-----------------------------------------------------------------------------
(* Paths *)

NoName == << >>
TopDir(r) == [root |-> r, sub |-> NoName]
File(d, s, c, e) == [dir |-> d, stem |-> s, ctrs |-> c, ext |-> e]
EmptyPath == File(TopDir(NoName), "", << >>, "")

DestRoot == <<"D">>
SrcDirs == {TopDir(<<"S">>), TopDir(<<"T">>)}
InitialPaths == {File(d, "photo", << >>, ".jpg") : d \in SrcDirs}

Persons == {<<"a">>, <<"b">>}

\* os.path.exists / os.path.isfile of a file path
exists(path, files) == path \in DOMAIN files

\* shutil.copy2(src, dst): dst is created or overwritten with the content of src
copy2_exclusive(files, src, dst) ==
    IF dst \in DOMAIN files THEN files
    ELSE [p \in DOMAIN files \cup {dst} |-> IF p = dst THEN files[src] ELSE files[p]]
copy2(files, src, dst) ==
    [p \in DOMAIN files \cup {dst} |-> IF p = dst THEN files[src] ELSE files[p]]

\* os.remove(path)
remove(files, path) == [p \in DOMAIN files \ {path} |-> files[p]]

\* os.path.join(dest_root, safe_person): a second part that starts with the
\* separator replaces the first
join(root, name) ==
    IF name # NoName /\ name[1] = "/" THEN [root |-> NoName, sub |-> name]
    ELSE [root |-> root, sub |-> name]

\* os.path.join(target_dir, os.path.basename(src))
join_basename(target_dir, src) == [src EXCEPT !.dir = target_dir]

\* os.makedirs(d, exist_ok=True): d and its parents
makedirs(ds, d) == ds \cup {d, TopDir(d.root)}

\* f"{base} ({i}){ext}" with base, ext = os.path.splitext(path)
with_counter(path, i) == [path EXCEPT !.ctrs = Append(@, i)]

unique_target_none(path, files) == path
unique_target(path, files) ==
    IF ~exists(path, files) THEN path
    ELSE LET n == Cardinality(DOMAIN files) + 1
             i == CHOOSE k \in 1..n :
                    /\ ~exists(with_counter(path, k), files)
                    /\ \A j \in 1..(k - 1) : exists(with_counter(path, j), files)
         IN with_counter(path, i)

-----------------------------------------------------------------------------
(* sanitize_name *)

\* the characters the pattern [^\w\-\u4e00-\u9fa5\. ]+ keeps, among those
\* modelled ("U4E2D" stands for one CJK ideograph)
AllowedChars == {"a", "b", "7", "_", "-", ".", " ", "U4E2D"}
Whitespace == {" "}
Unknown == <<"U", "n", "k", "n", "o", "w", "n">>

RECURSIVE lstrip(_)
lstrip(s) == IF s # << >> /\ s[1] \in Whitespace THEN lstrip(Tail(s)) ELSE s

RECURSIVE rstrip(_)
rstrip(s) ==
    IF s # << >> /\ s[Len(s)] \in Whitespace THEN rstrip(SubSeq(s, 1, Len(s) - 1)) ELSE s

strip(s) == rstrip(lstrip(s))

sanitize_name(name, person) ==
    LET out == strip(SelectSeq(name, LAMBDA c : c \in AllowedChars))
    IN IF out # << >> THEN out ELSE IF person # << >> THEN person ELSE Unknown

-----------------------------------------------------------------------------
(* api_move *)

ErrNoSource == "source file does not exist"

\* try: os.remove(path) except Exception: pass
rollback_never(files, path, rbOk) == files
rollback(files, path, rbOk) == IF rbOk THEN remove(files, path) ELSE files
ErrRemove == "remove failed"

\* One pass of the loop over the plan (server.py:181-218) on the frame
\* st = [fs, dirs, moved, errors]; rmOk: whether os.remove(src) succeeds;
\* rbOk: whether os.remove(target_path), the rollback, succeeds.
move_item(st, item, root, dry, rmOk, rbOk) ==
    LET src == item.path
        person == item.person
    IN
    IF src = EmptyPath \/ person = NoName THEN st
    ELSE IF ~exists(src, st.fs)
    THEN [st EXCEPT !.errors = Append(@, [path |-> src, error |-> ErrNoSource])]
    ELSE
      LET safe_person == sanitize_name(person, person)
          target_dir == join(root, safe_person)
          target_path == unique_target(join_basename(target_dir, src), st.fs)
          rec == [from |-> src, to |-> target_path]
      IN
      IF dry THEN [st EXCEPT !.moved = Append(@, rec)]
      ELSE IF src = target_path
      THEN [st EXCEPT !.dirs = makedirs(@, target_dir), !.moved = Append(@, rec)]
      ELSE IF rmOk
      THEN [st EXCEPT !.dirs = makedirs(@, target_dir),
                      !.fs = remove(copy2(@, src, target_path), src),
                      !.moved = Append(@, rec)]
      ELSE \* the copy is rolled back and the failure of os.remove is reported; a
           \* failure of the rollback is swallowed (server.py:211-214)
           [st EXCEPT !.dirs = makedirs(@, target_dir),
                      !.fs = rollback(copy2(@, src, target_path), target_path, rbOk),
                      !.errors = Append(@, [path |-> src, error |-> ErrRemove])]

\* move_history[-n:]
first_n(h, n) == IF Len(h) > n THEN SubSeq(h, 1, n) ELSE h
keep_all(h, n) == h
last_n(h, n) == IF Len(h) > n THEN SubSeq(h, Len(h) - n + 1, Len(h)) ELSE h

\* server.py:221-228: append the batch, then bound the ledger
record_batch(h, b) ==
    LET h1 == Append(h, b)
    IN IF Len(h1) > MOVE_HISTORY_MAX THEN last_n(h1, MOVE_HISTORY_MAX) ELSE h1

\* server.py:220
should_record_any(dry, mv) == mv # << >>
should_record(dry, mv) == ~dry /\ mv # << >>

NoResp == [kind |-> "none", ok |-> TRUE, moved |-> << >>, undone |-> << >>,
           errors |-> << >>, undoneBatches |-> 0, dry |-> FALSE, count |-> 0,
           strategy |-> "", recorded |-> FALSE]
NoShadow == [moved |-> << >>, errors |-> << >>]
NoBatch == [moved |-> << >>, errors |-> << >>, meta |-> [destRoot |-> NoName, id |-> 0]]

\* the ids of the recorded batches that no undo has popped, given the ids so far
Live(n, pp) == (1..n) \ pp
\* those of them that are not among the H most recent
Excess(n, pp) == {i \in Live(n, pp) : Cardinality({j \in Live(n, pp) : j > i}) >= MOVE_HISTORY_MAX}

FrameIdle ==
    /\ dest_root' = NoName /\ dry_run' = FALSE /\ moved' = << >> /\ errors' = << >>
    /\ count' = 0 /\ strategy' = "" /\ undone' = << >> /\ undone_batches' = 0
    /\ moved_list' = << >> /\ batch' = NoBatch

Snapshot ==
    /\ fsPre' = fs /\ dirsPre' = dirs /\ histPre' = move_history

\* server.py:154-168
api_move_begin(root, dry, cap) ==
    /\ pc = "idle"
    /\ fault' = "none"
    /\ UNCHANGED <<scanVars, thr, calls>>
    /\ dry \/ nextId <= cap
    /\ Snapshot
    /\ fsPrev' = << >> /\ roundTrip' = FALSE
    /\ shadow' = NoShadow /\ ulog' = << >> /\ items' = 0
    /\ IF root = NoName
       THEN /\ resp' = [NoResp EXCEPT !.kind = "move", !.ok = FALSE, !.dry = dry]
            /\ UNCHANGED <<fs, dirs, move_history, pc, dest_root, dry_run, moved,
                           errors, count, strategy, undone, undone_batches,
                           moved_list, batch, nextId, popped, evicted>>
       ELSE /\ dirs' = IF TopDir(root) \in dirs THEN dirs ELSE makedirs(dirs, TopDir(root))
            /\ pc' = "move" /\ dest_root' = root /\ dry_run' = dry
            /\ moved' = << >> /\ errors' = << >>
            /\ resp' = NoResp
            /\ UNCHANGED <<fs, move_history, count, strategy, undone, undone_batches,
                           moved_list, batch, nextId, popped, evicted>>

\* what became of os.remove in a step: reached says whether the step got to it
Fault(reached, rmOk, rbOk) ==
    IF ~reached \/ rmOk THEN "none" ELSE IF rbOk THEN "rm" ELSE "rm_rb"

\* server.py:181-218, one plan item
api_move_item(item, rmOk, rbOk, cap) ==
    /\ pc = "move"
    /\ UNCHANGED <<scanVars, thr, calls>>
    /\ items < cap
    /\ LET fr == [fs |-> fs, dirs |-> dirs, moved |-> moved, errors |-> errors]
           st == move_item(fr, item, dest_root, dry_run, rmOk, rbOk)
           sh == move_item([fs |-> fsPre, dirs |-> dirs, moved |-> shadow.moved,
                            errors |-> shadow.errors], item, dest_root, TRUE, TRUE, TRUE)
       IN /\ fs' = st.fs /\ dirs' = st.dirs /\ moved' = st.moved /\ errors' = st.errors
          /\ fault' = Fault(move_item(fr, item, dest_root, dry_run, TRUE, TRUE).fs # fs,
                            rmOk, rbOk)
          /\ shadow' = IF dry_run THEN NoShadow
                       ELSE [moved |-> sh.moved, errors |-> sh.errors]
    /\ items' = items + 1
    /\ UNCHANGED <<move_history, pc, dest_root, dry_run, count, strategy, undone,
                   undone_batches, moved_list, batch, resp, fsPre, dirsPre, histPre,
                   fsPrev, roundTrip, ulog, nextId, popped, evicted>>

\* server.py:219-229
api_move_end ==
    /\ pc = "move"
    /\ fault' = "none"
    /\ UNCHANGED <<scanVars, thr, calls>>
    /\ LET rec == should_record(dry_run, moved)
           b == [moved |-> moved, errors |-> errors,
                 meta |-> [destRoot |-> dest_root, id |-> nextId]]
       IN /\ move_history' = IF rec THEN record_batch(move_history, b) ELSE move_history
          /\ nextId' = IF rec THEN nextId + 1 ELSE nextId
          /\ evicted' = IF rec THEN evicted \cup Excess(nextId, popped) ELSE evicted
          /\ resp' = [NoResp EXCEPT !.kind = "move", !.moved = moved, !.errors = errors,
                                    !.dry = dry_run, !.recorded = rec]
    /\ pc' = "idle"
    /\ FrameIdle
    /\ UNCHANGED <<fs, dirs, items, fsPre, dirsPre, histPre, fsPrev, roundTrip, shadow,
                   ulog, popped>>

-----------------------------------------------------------------------------
(* api_undo_move *)

ErrMissing == "target file does not exist, cannot undo"
ErrSkipped == "a file of the same name exists at the source, skipped"

\* os.path.dirname(path)
dirname(path) == path.dir

\* server.py:279: strategy == "unique"
is_unique_never(strat) == FALSE
is_unique_always(strat) == TRUE
is_unique(strat) == strat = "unique"

\* server.py:274-275: the record is reported and skipped
report_missing_silent(st, dst_path) == st
report_missing(st, dst_path) ==
    [st EXCEPT !.errors = Append(@, [path |-> dst_path, error |-> ErrMissing])]

\* One pass of the loop over the records of a batch (server.py:268-299) on the
\* frame st = [fs, dirs, undone, errors]; rmOk: whether os.remove(dst_path)
\* succeeds; rbOk: whether os.remove(restore_path), the rollback, succeeds.
undo_rec(st, rec, strat, rmOk, rbOk) ==
    LET dst_path == rec.to
        src_path == rec.from
    IN
    IF dst_path = EmptyPath \/ src_path = EmptyPath THEN st
    ELSE IF ~exists(dst_path, st.fs)
    THEN report_missing(st, dst_path)
    ELSE IF exists(src_path, st.fs) /\ ~is_unique(strat)
    THEN [st EXCEPT !.errors = Append(@, [path |-> src_path, error |-> ErrSkipped])]
    ELSE
      LET restore_path == IF exists(src_path, st.fs) THEN unique_target(src_path, st.fs)
                          ELSE src_path
      IN
      IF rmOk
      THEN [st EXCEPT !.dirs = makedirs(@, dirname(restore_path)),
                      !.fs = remove(copy2(@, dst_path, restore_path), dst_path),
                      !.undone = Append(@, [from |-> dst_path, to |-> restore_path])]
      ELSE [st EXCEPT !.dirs = makedirs(@, dirname(restore_path)),
                      !.fs = rollback(copy2(@, dst_path, restore_path), restore_path, rbOk),
                      !.errors = Append(@, [path |-> dst_path, error |-> ErrRemove])]

\* move_history.pop(): <<the batch, the rest>>
pop_head(h) == <<h[1], SubSeq(h, 2, Len(h))>>
pop_keep(h) == <<h[Len(h)], h>>
pop(h) == <<h[Len(h)], SubSeq(h, 1, Len(h) - 1)>>

\* reversed(moved_list): the index of the record visited next
next_index_forward(ml) == 1
next_index(ml) == Len(ml)

\* server.py:241-262
api_undo_begin(c, s) ==
    /\ pc = "idle"
    /\ fault' = "none"
    /\ UNCHANGED <<scanVars, thr, calls>>
    /\ Snapshot
    /\ roundTrip' = (c = 1 /\ resp.kind = "move" /\ resp.recorded)
    /\ fsPrev' = IF roundTrip' THEN fsPre ELSE << >>
    /\ shadow' = NoShadow /\ ulog' = << >> /\ items' = 0
    /\ IF c <= 0
       THEN /\ resp' = [NoResp EXCEPT !.kind = "undo", !.ok = FALSE, !.count = c,
                                      !.strategy = s]
            /\ UNCHANGED <<fs, dirs, move_history, pc, dest_root, dry_run, moved,
                           errors, count, strategy, undone, undone_batches,
                           moved_list, batch, nextId, popped, evicted>>
       ELSE /\ pc' = "undo" /\ count' = c /\ strategy' = s
            /\ undone' = << >> /\ errors' = << >> /\ undone_batches' = 0
            /\ resp' = [NoResp EXCEPT !.count = c, !.strategy = s]
            /\ UNCHANGED <<fs, dirs, move_history, dest_root, dry_run, moved,
                           moved_list, batch, nextId, popped, evicted>>

\* server.py:264: while count > 0 and move_history
undo_while_history(c, h) == h # << >>
undo_while(c, h) == c > 0 /\ h # << >>

\* server.py:264-266: the loop test and the pop
api_undo_pop ==
    /\ pc = "undo"
    /\ fault' = "none"
    /\ UNCHANGED <<scanVars, thr, calls>>
    /\ moved_list = << >>
    /\ undo_while(count, move_history)
    /\ LET pr == pop(move_history)
       IN /\ batch' = pr[1]
          /\ move_history' = pr[2]
          /\ moved_list' = pr[1].moved
          /\ popped' = popped \cup {pr[1].meta.id}
          \* a batch without records is done at once (server.py:300-301)
          /\ undone_batches' = IF pr[1].moved = << >> THEN undone_batches + 1 ELSE undone_batches
          /\ count' = IF pr[1].moved = << >> THEN count - 1 ELSE count
    /\ UNCHANGED <<fs, dirs, pc, dest_root, dry_run, moved, errors, strategy, undone,
                   resp, items, fsPre, dirsPre, histPre, fsPrev, roundTrip,
                   shadow, ulog, nextId, evicted>>

\* server.py:268-301, one record of the popped batch, last record first
api_undo_rec(rmOk, rbOk) ==
    /\ pc = "undo"
    /\ UNCHANGED <<scanVars, thr, calls>>
    /\ moved_list # << >>
    /\ LET k == next_index(moved_list)
           fr == [fs |-> fs, dirs |-> dirs, undone |-> undone, errors |-> errors]
           st == undo_rec(fr, moved_list[k], strategy, rmOk, rbOk)
           \* the records still to visit
           left == [j \in 1..(Len(moved_list) - 1) |->
                      IF j < k THEN moved_list[j] ELSE moved_list[j + 1]]
       IN /\ fs' = st.fs /\ dirs' = st.dirs /\ undone' = st.undone /\ errors' = st.errors
          /\ moved_list' = left
          /\ ulog' = Append(ulog, <<batch.meta.id, k>>)
          /\ fault' = Fault(undo_rec(fr, moved_list[k], strategy, TRUE, TRUE).fs # fs,
                            rmOk, rbOk)
          /\ undone_batches' = IF left = << >> THEN undone_batches + 1 ELSE undone_batches
          /\ count' = IF left = << >> THEN count - 1 ELSE count
    /\ UNCHANGED <<move_history, pc, dest_root, dry_run, moved, strategy, batch, resp,
                   items, fsPre, dirsPre, histPre, fsPrev, roundTrip, shadow,
                   nextId, popped, evicted>>

\* server.py:303-305
api_undo_end ==
    /\ pc = "undo"
    /\ fault' = "none"
    /\ UNCHANGED <<scanVars, thr, calls>>
    /\ moved_list = << >>
    /\ ~undo_while(count, move_history)
    /\ resp' = IF undone_batches = 0
               THEN [resp EXCEPT !.kind = "undo", !.ok = TRUE]
               ELSE [resp EXCEPT !.kind = "undo", !.ok = TRUE, !.undone = undone,
                                 !.errors = errors, !.undoneBatches = undone_batches]
    /\ pc' = "idle"
    /\ FrameIdle
    /\ UNCHANGED <<fs, dirs, move_history, items, fsPre, dirsPre, histPre, fsPrev,
                   roundTrip, shadow, ulog, nextId, popped, evicted>>

-----------------------------------------------------------------------------
(* Request threads: app.run (server.py:323) serves every request in a thread *)
(* of its own, and api_move and api_undo_move share move_history without a   *)
(* lock.  A thread may be switched between any two operations on the list.   *)

Threads == {1, 2}

IdleThread == [pc |-> "idle", id |-> 0, moved |-> << >>, errors |-> << >>,
               tmp |-> << >>, count |-> 0, undone_batches |-> 0,
               moved_list |-> << >>]

\* what the sequential handlers own is left alone by the threads
handlerVars == <<pc, dest_root, dry_run, moved, errors, count, strategy, undone,
                 undone_batches, batch, moved_list, resp, items, fsPre, dirsPre,
                 histPre, fsPrev, roundTrip, shadow, ulog, evicted, fault, scanVars>>

\* the ledger operation of a call: for a move call the batch it appends, for
\* an undo call its count
NoCall == [kind |-> "none", batch |-> NoBatch, count |-> 0]

\* server.py:154-168, in thread t (the destination root exists)
t_move_begin(t, cap) ==
    /\ thr[t].pc = "idle"
    /\ Len(calls) < cap
    /\ thr' = [thr EXCEPT ![t] = [IdleThread EXCEPT !.pc = "plan", !.id = Len(calls) + 1]]
    /\ calls' = Append(calls, [NoCall EXCEPT !.kind = "move"])
    /\ UNCHANGED <<fs, dirs, move_history, nextId, popped, handlerVars>>

\* server.py:181-218, one plan item in thread t
t_move_item(t, item, cap) ==
    /\ thr[t].pc = "plan"
    /\ Len(thr[t].moved) + Len(thr[t].errors) < cap
    /\ LET st == move_item([fs |-> fs, dirs |-> dirs, moved |-> thr[t].moved,
                            errors |-> thr[t].errors], item, DestRoot, FALSE, TRUE, TRUE)
       IN /\ fs' = st.fs /\ dirs' = st.dirs
          /\ thr' = [thr EXCEPT ![t].moved = st.moved, ![t].errors = st.errors]
    /\ UNCHANGED <<move_history, calls, nextId, popped, handlerVars>>

\* One plan item of a real move in thread t, in the steps between which another
\* thread may run: the checks and the probe for a free name, the copy, the
\* delete.

ErrCopy == "No such file or directory"

\* server.py:182-200: the source is checked and the target path chosen
t_item_probe(t, item, cap) ==
    /\ thr[t].pc = "plan"
    /\ Len(thr[t].moved) + Len(thr[t].errors) < cap
    /\ item.path # EmptyPath /\ item.person # NoName
    /\ LET src == item.path
           target_dir == join(DestRoot, sanitize_name(item.person, item.person))
           target_path == unique_target(join_basename(target_dir, src), fs)
       IN thr' = [thr EXCEPT ![t] =
                    IF ~exists(src, fs)
                    THEN [@ EXCEPT !.errors = Append(@, [path |-> src,
                                                         error |-> ErrNoSource])]
                    ELSE [@ EXCEPT !.tmp = <<[from |-> src, to |-> target_path]>>,
                                   !.pc = "copy"]]
    /\ UNCHANGED <<fs, dirs, move_history, calls, nextId, popped, handlerVars>>

\* server.py:202-205: the target directory is made and the file copied; the
\* copy fails when the source is gone by now
t_item_copy(t) ==
    /\ thr[t].pc = "copy"
    /\ LET rec == thr[t].tmp[1]
       IN /\ dirs' = makedirs(dirs, rec.to.dir)
          /\ IF rec.from = rec.to
             THEN /\ fs' = fs
                  /\ thr' = [thr EXCEPT ![t].moved = Append(@, rec), ![t].tmp = << >>,
                                        ![t].pc = "plan"]
             ELSE IF ~exists(rec.from, fs)
             THEN /\ fs' = fs
                  /\ thr' = [thr EXCEPT ![t].errors = Append(@, [path |-> rec.from,
                                                                 error |-> ErrCopy]),
                                        ![t].tmp = << >>, ![t].pc = "plan"]
             ELSE /\ fs' = copy2(fs, rec.from, rec.to)
                  /\ thr' = [thr EXCEPT ![t].pc = "remove"]
    /\ UNCHANGED <<move_history, calls, nextId, popped, handlerVars>>

\* server.py:206-216: the source is deleted and the record reported; when the
\* source is gone by now the delete fails, the target is deleted again and the
\* failure reported
t_item_remove(t) ==
    /\ thr[t].pc = "remove"
    /\ LET rec == thr[t].tmp[1]
       IN IF exists(rec.from, fs)
          THEN /\ fs' = remove(fs, rec.from)
               /\ thr' = [thr EXCEPT ![t].moved = Append(@, rec), ![t].tmp = << >>,
                                     ![t].pc = "plan"]
          ELSE /\ fs' = rollback(fs, rec.to, TRUE)
               /\ thr' = [thr EXCEPT ![t].errors = Append(@, [path |-> rec.from,
                                                              error |-> ErrCopy]),
                                     ![t].tmp = << >>, ![t].pc = "plan"]
    /\ UNCHANGED <<dirs, move_history, calls, nextId, popped, handlerVars>>

\* server.py:220: the plan is done; record or return
t_move_test(t) ==
    /\ thr[t].pc = "plan"
    /\ thr' = [thr EXCEPT ![t] = IF should_record(FALSE, thr[t].moved)
                                  THEN [@ EXCEPT !.pc = "append"] ELSE IdleThread]
    /\ UNCHANGED <<fs, dirs, move_history, calls, nextId, popped, handlerVars>>

\* server.py:221-225: move_history.append(...)
t_append(t) ==
    /\ thr[t].pc = "append"
    /\ LET b == [moved |-> thr[t].moved, errors |-> thr[t].errors,
                 meta |-> [destRoot |-> DestRoot, id |-> nextId]]
       IN /\ move_history' = Append(move_history, b)
          /\ calls' = [calls EXCEPT ![thr[t].id].batch = b]
    /\ nextId' = nextId + 1
    /\ thr' = [thr EXCEPT ![t].pc = "len"]
    /\ UNCHANGED <<fs, dirs, popped, handlerVars>>

\* server.py:227: if len(move_history) > MOVE_HISTORY_MAX
t_len(t) ==
    /\ thr[t].pc = "len"
    /\ thr' = [thr EXCEPT ![t] = IF Len(move_history) > MOVE_HISTORY_MAX
                                  THEN [@ EXCEPT !.pc = "slice"] ELSE IdleThread]
    /\ UNCHANGED <<fs, dirs, move_history, calls, nextId, popped, handlerVars>>

\* server.py:228, right-hand side: move_history[-MOVE_HISTORY_MAX:]
t_slice(t) ==
    /\ thr[t].pc = "slice"
    /\ thr' = [thr EXCEPT ![t].tmp = last_n(move_history, MOVE_HISTORY_MAX),
                          ![t].pc = "assign"]
    /\ UNCHANGED <<fs, dirs, move_history, calls, nextId, popped, handlerVars>>

\* server.py:228, the assignment: move_history[:] = ..., and the call returns
t_assign(t) ==
    /\ thr[t].pc = "assign"
    /\ move_history' = thr[t].tmp
    /\ thr' = [thr EXCEPT ![t] = IdleThread]
    /\ UNCHANGED <<fs, dirs, calls, nextId, popped, handlerVars>>

\* server.py:241-262, in thread t
t_undo_begin(t, c, cap) ==
    /\ thr[t].pc = "idle"
    /\ Len(calls) < cap
    /\ c > 0
    /\ thr' = [thr EXCEPT ![t] = [IdleThread EXCEPT !.pc = "while", !.count = c,
                                                    !.id = Len(calls) + 1]]
    /\ calls' = Append(calls, [NoCall EXCEPT !.kind = "undo", !.count = c])
    /\ UNCHANGED <<fs, dirs, move_history, nextId, popped, handlerVars>>

\* server.py:264: while count > 0 and move_history; server.py:303-305 when not
t_while(t) ==
    /\ thr[t].pc = "while"
    /\ thr' = [thr EXCEPT ![t] = IF undo_while(thr[t].count, move_history)
                                  THEN [@ EXCEPT !.pc = "pop"] ELSE IdleThread]
    /\ UNCHANGED <<fs, dirs, move_history, calls, nextId, popped, handlerVars>>

\* server.py:265-266: move_history.pop(); on an empty list it raises
\* IndexError and the call ends with an error
t_pop(t) ==
    /\ thr[t].pc = "pop"
    /\ IF move_history = << >>
       THEN /\ thr' = [thr EXCEPT ![t] = IdleThread]
            /\ UNCHANGED <<move_history, popped>>
       ELSE LET pr == pop(move_history)
            IN /\ move_history' = pr[2]
               /\ popped' = popped \cup {pr[1].meta.id}
               /\ thr' = [thr EXCEPT ![t].moved_list = pr[1].moved, ![t].pc = "recs"]
    /\ UNCHANGED <<fs, dirs, calls, nextId, handlerVars>>

\* server.py:268-299, one record of the popped batch in thread t (strategy
\* unique), last record first
t_undo_rec(t) ==
    /\ thr[t].pc = "recs"
    /\ thr[t].moved_list # << >>
    /\ LET ml == thr[t].moved_list
           st == undo_rec([fs |-> fs, dirs |-> dirs, undone |-> << >>, errors |-> << >>],
                          ml[Len(ml)], "unique", TRUE, TRUE)
       IN /\ fs' = st.fs /\ dirs' = st.dirs
          /\ thr' = [thr EXCEPT ![t].moved_list = SubSeq(ml, 1, Len(ml) - 1)]
    /\ UNCHANGED <<move_history, calls, nextId, popped, handlerVars>>

\* server.py:300-301: the batch is done
t_batch_done(t) ==
    /\ thr[t].pc = "recs"
    /\ thr[t].moved_list = << >>
    /\ thr' = [thr EXCEPT ![t].undone_batches = @ + 1, ![t].count = @ - 1,
                          ![t].pc = "while"]
    /\ UNCHANGED <<fs, dirs, move_history, calls, nextId, popped, handlerVars>>

-----------------------------------------------------------------------------
(* The environment: the user puts a new file where a photo was.  The history *)
(* of the last handler ends there.                                            *)

ExtContent == "x1"
ExtPaths == {File(TopDir(<<"S">>), "photo", << >>, ".jpg")}

ExtCreate(p) ==
    /\ pc = "idle"
    /\ fault' = "none"
    /\ UNCHANGED <<scanVars, thr, calls>>
    /\ p \notin DOMAIN fs
    /\ \A q \in DOMAIN fs : fs[q] # ExtContent
    /\ fs' = [q \in DOMAIN fs \cup {p} |-> IF q = p THEN ExtContent ELSE fs[q]]
    /\ resp' = NoResp /\ items' = 0
    /\ fsPre' = fs' /\ dirsPre' = dirs /\ histPre' = move_history
    /\ fsPrev' = << >> /\ roundTrip' = FALSE /\ shadow' = NoShadow /\ ulog' = << >>
    /\ UNCHANGED <<dirs, move_history, pc, dest_root, dry_run, moved, errors, count,
                   strategy, undone, undone_batches, moved_list, batch, nextId,
                   popped, evicted>>

-----------------------------------------------------------------------------
(* api_scan and api_scan_stream *)

\* utils_scan.py:3
ALLOWED_EXT == {".jpg", ".jpeg", ".png", ".gif", ".bmp", ".webp", ".tif", ".tiff"}

\* str.lower() of an extension, for the extensions modelled
lower(e) == IF e = ".JPG" THEN ".jpg" ELSE e

\* utils_scan.py:6-8
is_allowed_image(path) == lower(path.ext) \in ALLOWED_EXT

\* os.path.isdir(src_dir) of a top directory
isdir(d, ds) == TopDir(d) \in ds

\* the image files os.walk(root) finds under root
Images(root, files) == {p \in DOMAIN files : p.dir.root = root /\ is_allowed_image(p)}

\* utils_scan.py:11-17: the orders in which scan_images(root) may yield them:
\* os.walk is top-down, the files of root come before those of its
\* sub-directories; the order inside one directory is the file system's
scan_images(root, files) ==
    LET S == Images(root, files)
        n == Cardinality(S)
    IN {q \in [1..n -> S] :
          /\ \A i, j \in 1..n : i # j => q[i] # q[j]
          /\ \A i, j \in 1..n : (i < j /\ q[i].dir # q[j].dir) => q[i].dir.sub = NoName}

\* utils_metadata.py:274-288: what extract_people_and_tags returns when the
\* exiftool run has outcome out; every failure is caught and gives empty lists
extract_people_and_tags(out, has) ==
    IF has /\ out.ok THEN [people |-> out.people, tags |-> out.tags]
    ELSE [people |-> << >>, tags |-> << >>]

ErrNoDir == "source directory does not exist"
ErrNoExiftool == "exiftool not detected"

\* server.py:31-34 and 58-61: the error a scan call returns at once, or "" when
\* it may proceed
precheck_dir_only(dir, ds, has) == IF dir = NoName \/ ~isdir(dir, ds) THEN ErrNoDir ELSE ""
precheck(dir, ds, has) ==
    IF dir = NoName \/ ~isdir(dir, ds) THEN ErrNoDir
    ELSE IF ~has THEN ErrNoExiftool
    ELSE ""

NoScanResp == [kind |-> "none", ok |-> TRUE, error |-> "", srcDir |-> NoName,
               items |-> << >>]

ScanFrameIdle ==
    /\ src_dir' = NoName /\ scan_iter' = << >> /\ idx' = 0 /\ results' = << >>

\* the engine is left alone by the scan handlers
engineVars == <<fs, dirs, move_history, pc, dest_root, dry_run, moved, errors, count,
                strategy, undone, undone_batches, batch, moved_list, resp, items,
                fsPre, dirsPre, histPre, fsPrev, roundTrip, shadow, ulog, nextId,
                popped, evicted, fault>>

\* server.py:29-37: the checks, and the traversal starts
api_scan_begin(dir) ==
    /\ spc = "idle"
    /\ events' = << >> /\ extracted' = << >> /\ idx' = 0 /\ results' = << >>
    /\ LET err == precheck(dir, dirs, HAS_EXIFTOOL)
       IN IF err # ""
          THEN /\ sresp' = [NoScanResp EXCEPT !.kind = "scan", !.ok = FALSE,
                                              !.error = err, !.srcDir = dir]
               /\ discovered' = << >>
               /\ UNCHANGED <<spc, src_dir, scan_iter>>
          ELSE /\ spc' = "scan" /\ src_dir' = dir
               /\ scan_iter' \in scan_images(dir, fs)
               /\ discovered' = scan_iter'
               /\ sresp' = [NoScanResp EXCEPT !.srcDir = dir]
    /\ UNCHANGED <<HAS_EXIFTOOL, pulls, engineVars, thr, calls>>

\* server.py:37-44, one path
api_scan_item(out) ==
    /\ spc = "scan"
    /\ scan_iter # << >>
    /\ LET path == Head(scan_iter)
           pt == extract_people_and_tags(out, HAS_EXIFTOOL)
       IN /\ results' = Append(results, [path |-> path, people |-> pt.people,
                                         tags |-> pt.tags])
          /\ extracted' = Append(extracted, [path |-> path, ok |-> out.ok])
    /\ scan_iter' = Tail(scan_iter)
    /\ UNCHANGED <<HAS_EXIFTOOL, pulls, spc, src_dir, idx, events, sresp, discovered, engineVars, thr, calls>>

\* server.py:45
api_scan_end ==
    /\ spc = "scan"
    /\ scan_iter = << >>
    /\ sresp' = [sresp EXCEPT !.kind = "scan", !.ok = TRUE, !.items = results]
    /\ spc' = "idle"
    /\ ScanFrameIdle
    /\ UNCHANGED <<HAS_EXIFTOOL, pulls, events, discovered, extracted, engineVars, thr, calls>>

\* the payloads of the events of the stream (server.py:53-55)
StartEvent == [type |-> "start", idx |-> 0, path |-> EmptyPath, people |-> << >>,
               tags |-> << >>, count |-> 0]
ItemEvent(i, path, pt) == [type |-> "item", idx |-> i, path |-> path,
                           people |-> pt.people, tags |-> pt.tags, count |-> 0]
EndEvent(n) == [type |-> "end", idx |-> 0, path |-> EmptyPath, people |-> << >>,
                tags |-> << >>, count |-> n]

\* server.py:79: idx += 1
next_idx_stuck(i) == i
next_idx(i) == i + 1

\* server.py:57-61 and 89-94: the checks, and the response with the generator
api_scan_stream_begin(dir) ==
    /\ spc = "idle"
    /\ events' = << >> /\ extracted' = << >> /\ idx' = 0 /\ results' = << >>
    /\ pulls' = 0
    /\ discovered' = << >> /\ scan_iter' = << >>
    /\ LET err == precheck(dir, dirs, HAS_EXIFTOOL)
       IN IF err # ""
          THEN /\ sresp' = [NoScanResp EXCEPT !.kind = "stream", !.ok = FALSE,
                                              !.error = err, !.srcDir = dir]
               /\ UNCHANGED <<spc, src_dir>>
          ELSE /\ spc' = "stream_start" /\ src_dir' = dir
               /\ sresp' = [NoScanResp EXCEPT !.srcDir = dir]
    /\ UNCHANGED <<HAS_EXIFTOOL, engineVars, thr, calls>>

\* server.py:76: yield the start event
generate_start ==
    /\ spc = "stream_start"
    /\ events' = Append(events, StartEvent)
    /\ spc' = "stream_walk"
    /\ UNCHANGED <<HAS_EXIFTOOL, pulls, src_dir, scan_iter, idx, results, sresp, discovered,
                   extracted, engineVars, thr, calls>>

\* server.py:77-78: idx = 0 and the traversal starts
generate_walk ==
    /\ spc = "stream_walk"
    /\ idx' = 0
    /\ scan_iter' \in scan_images(src_dir, fs)
    /\ discovered' = scan_iter'
    /\ spc' = "stream_loop"
    /\ UNCHANGED <<HAS_EXIFTOOL, pulls, src_dir, results, events, sresp, extracted, engineVars, thr, calls>>

\* server.py:78-85, one path
generate_item(out) ==
    /\ spc = "stream_loop"
    /\ scan_iter # << >>
    /\ LET path == Head(scan_iter)
           pt == extract_people_and_tags(out, HAS_EXIFTOOL)
       IN /\ idx' = next_idx(idx)
          /\ events' = Append(events, ItemEvent(idx', path, pt))
          /\ extracted' = Append(extracted, [path |-> path, ok |-> out.ok])
    /\ scan_iter' = Tail(scan_iter)
    /\ UNCHANGED <<HAS_EXIFTOOL, pulls, spc, src_dir, results, sresp, discovered, engineVars, thr, calls>>

\* server.py:87: yield the end event, and the stream is over
generate_end ==
    /\ spc = "stream_loop"
    /\ scan_iter = << >>
    /\ events' = Append(events, EndEvent(idx))
    /\ sresp' = [sresp EXCEPT !.kind = "stream", !.ok = TRUE]
    /\ spc' = "idle"
    /\ ScanFrameIdle
    /\ UNCHANGED <<HAS_EXIFTOOL, pulls, discovered, extracted, engineVars, thr, calls>>

\* The user deletes a file by hand, once.  The history of the last handler
\* ends there.
ExtRemove(p) ==
    /\ pc = "idle"
    /\ fault' = "none"
    /\ UNCHANGED <<scanVars, thr, calls>>
    /\ p \in DOMAIN fs
    /\ Cardinality(DOMAIN fs) = Cardinality(InitialPaths)
    /\ fs' = remove(fs, p)
    /\ resp' = NoResp /\ items' = 0
    /\ fsPre' = fs' /\ dirsPre' = dirs /\ histPre' = move_history
    /\ fsPrev' = << >> /\ roundTrip' = FALSE /\ shadow' = NoShadow /\ ulog' = << >>
    /\ UNCHANGED <<dirs, move_history, pc, dest_root, dry_run, moved, errors, count,
                   strategy, undone, undone_batches, moved_list, batch, nextId,
                   popped, evicted>>

\* The generator of the stream, pulled by the server.  generate() runs only
\* while the server that writes the response asks for the next event (next()
\* on the generator), and is suspended at the yield it has reached in between;
\* when the client is gone the server closes the generator where it is
\* suspended.

\* the positions at which generate() is suspended: not started (server.py:89),
\* at the yield of line 76, of line 85, of line 87
Suspended == {"stream_start", "yielded_start", "yielded_item", "yielded_end"}

\* where generate() goes on when it is asked for the next event: server.py:76,
\* 77, 78 (the next pass of the loop), the end of the function
resume(s) ==
    CASE s = "stream_start" -> "run_start"
      [] s = "yielded_start" -> "stream_walk"
      [] s = "yielded_item" -> "stream_loop"
      [] OTHER -> "run_stop"

\* where generate() stays after a yield: server.py:76, 85, 87
suspend_never(s) == resume(IF s = "run_start" THEN "yielded_start"
                           ELSE IF s = "run_item" THEN "yielded_item" ELSE "yielded_end")
suspend(s) ==
    CASE s = "run_start" -> "yielded_start"
      [] s = "run_item" -> "yielded_item"
      [] OTHER -> "yielded_end"

\* the server asks for the next event
consumer_next ==
    /\ spc \in Suspended
    /\ pulls' = pulls + 1
    /\ spc' = resume(spc)
    /\ UNCHANGED <<HAS_EXIFTOOL, src_dir, scan_iter, idx, results, events, sresp,
                   discovered, extracted, engineVars, thr, calls>>

\* server.py:76: the start event is handed over
yield_start ==
    /\ spc = "run_start"
    /\ events' = Append(events, StartEvent)
    /\ spc' = suspend(spc)
    /\ UNCHANGED <<HAS_EXIFTOOL, pulls, src_dir, scan_iter, idx, results, sresp,
                   discovered, extracted, engineVars, thr, calls>>

\* server.py:78-84: the next path, idx += 1, the extraction, the item built
extract_item(out) ==
    /\ spc = "stream_loop"
    /\ scan_iter # << >>
    /\ LET path == Head(scan_iter)
           pt == extract_people_and_tags(out, HAS_EXIFTOOL)
       IN /\ idx' = next_idx(idx)
          /\ extracted' = Append(extracted, [path |-> path, ok |-> out.ok])
          /\ results' = <<ItemEvent(idx', path, pt)>>
    /\ scan_iter' = Tail(scan_iter)
    /\ spc' = "run_item"
    /\ UNCHANGED <<HAS_EXIFTOOL, pulls, src_dir, events, sresp, discovered,
                   engineVars, thr, calls>>

\* server.py:85: the item event is handed over
yield_item ==
    /\ spc = "run_item"
    /\ events' = Append(events, results[1])
    /\ results' = << >>
    /\ spc' = suspend(spc)
    /\ UNCHANGED <<HAS_EXIFTOOL, pulls, src_dir, scan_iter, idx, sresp, discovered,
                   extracted, engineVars, thr, calls>>

\* server.py:87: the traversal is over, the end event is handed over
yield_end ==
    /\ spc = "stream_loop"
    /\ scan_iter = << >>
    /\ events' = Append(events, EndEvent(idx))
    /\ spc' = suspend("run_end")
    /\ UNCHANGED <<HAS_EXIFTOOL, pulls, src_dir, scan_iter, idx, results, sresp,
                   discovered, extracted, engineVars, thr, calls>>

\* generate() returns: the stream is complete
generate_return ==
    /\ spc = "run_stop"
    /\ sresp' = [sresp EXCEPT !.kind = "stream", !.ok = TRUE]
    /\ spc' = "idle"
    /\ ScanFrameIdle
    /\ UNCHANGED <<HAS_EXIFTOOL, pulls, events, discovered, extracted, engineVars,
                   thr, calls>>

\* the client has disconnected: the server stops asking and closes the
\* generator, which ends at the yield where it is suspended
consumer_close ==
    /\ spc \in Suspended
    /\ spc' = "closed"
    /\ UNCHANGED <<HAS_EXIFTOOL, pulls, src_dir, scan_iter, idx, results, events,
                   sresp, discovered, extracted, engineVars, thr, calls>>

\* the request of a closed stream is over
stream_teardown ==
    /\ spc = "closed"
    /\ sresp' = [sresp EXCEPT !.kind = "stream", !.ok = TRUE]
    /\ spc' = "idle"
    /\ ScanFrameIdle
    /\ UNCHANGED <<HAS_EXIFTOOL, pulls, events, discovered, extracted, engineVars,
                   thr, calls>>

-----------------------------------------------------------------------------
(* Specifications *)

\* no request thread is running
ThreadsIdle == thr = [t \in Threads |-> IdleThread] /\ calls = << >>

\* no scan call has been made
ScanIdle ==
    /\ spc = "idle" /\ src_dir = NoName /\ scan_iter = << >> /\ idx = 0
    /\ results = << >> /\ events = << >> /\ sresp = NoScanResp
    /\ discovered = << >> /\ extracted = << >> /\ pulls = 0

InitFiles ==
    [p \in InitialPaths |-> IF p.dir = TopDir(<<"S">>) THEN "f1" ELSE "f2"]

Init ==
    /\ fs = InitFiles
    /\ dirs \in {SrcDirs, SrcDirs \cup {TopDir(DestRoot)}}
    /\ move_history = << >>
    /\ pc = "idle"
    /\ dest_root = NoName /\ dry_run = FALSE /\ moved = << >> /\ errors = << >>
    /\ count = 0 /\ strategy = "" /\ undone = << >> /\ undone_batches = 0
    /\ moved_list = << >> /\ batch = NoBatch
    /\ resp = NoResp
    /\ items = 0 /\ fsPre = InitFiles /\ dirsPre = dirs /\ histPre = << >>
    /\ fsPrev = << >> /\ roundTrip = FALSE
    /\ shadow = NoShadow /\ ulog = << >>
    /\ nextId = 1 /\ popped = {} /\ evicted = {} /\ fault = "none"
    /\ HAS_EXIFTOOL = TRUE /\ ScanIdle
    /\ ThreadsIdle

\* the plan items a caller may send: a photo that is or was on disk, or no path,
\* with a person or none
Sources == {p \in InitialPaths \cup DOMAIN fs : Len(p.ctrs) <= MaxDepth}
PlanItems ==
    {[path |-> p, person |-> q] : p \in Sources, q \in Persons}
    \cup {[path |-> EmptyPath, person |-> <<"a">>]}
    \cup {[path |-> p, person |-> NoName] : p \in InitialPaths}

Roots == {NoName, DestRoot}
Counts == {0, 1, 2}
Strategies == {"unique", "skip"}

Next ==
    \/ \E root \in Roots, dry \in BOOLEAN : api_move_begin(root, dry, MaxBatches)
    \/ \E item \in PlanItems : api_move_item(item, TRUE, TRUE, MaxPlan)
    \/ api_move_end
    \/ \E c \in Counts, s \in Strategies : api_undo_begin(c, s)
    \/ api_undo_pop
    \/ api_undo_rec(TRUE, TRUE)
    \/ api_undo_end
    \/ \E p \in ExtPaths : ExtCreate(p)

Spec == Init /\ [][Next]_vars

\* The ledger at its capacity: one caller moves one photo from person to person,
\* one plan item per call, until more batches than the ledger holds have been
\* recorded, and undoes once the ledger has been full.
LedgerSources == {p \in DOMAIN fs : fs[p] = "f1" /\ p.ctrs = << >>}
LedgerItems == {[path |-> p, person |-> q] : p \in LedgerSources, q \in Persons}
LedgerCounts == {1, 2, MOVE_HISTORY_MAX + 1}

NextLedger ==
    \/ \E dry \in BOOLEAN : api_move_begin(DestRoot, dry, MOVE_HISTORY_MAX + MaxBatches)
    \/ \E item \in LedgerItems : api_move_item(item, TRUE, TRUE, 1)
    \/ api_move_end
    \/ /\ nextId > MOVE_HISTORY_MAX
       /\ \E c \in LedgerCounts, s \in Strategies : api_undo_begin(c, s)
    \/ api_undo_pop
    \/ api_undo_rec(TRUE, TRUE)
    \/ api_undo_end

SpecLedger == Init /\ [][NextLedger]_vars

\* Person names as a caller types them: every name of at most MaxName
\* characters, allowed or not, is planned for a photo on disk, one item per call.
NameChars == {"a", "U4E2D", " ", ".", "/", "*"}
NamePersons == UNION {[1..n -> NameChars] : n \in 1..MaxName}
NameItems ==
    {[path |-> p, person |-> q] :
        p \in {f \in DOMAIN fs : Len(f.ctrs) <= MaxDepth}, q \in NamePersons}

NextNames ==
    \/ \E dry \in BOOLEAN : api_move_begin(DestRoot, dry, 1)
    \/ \E item \in NameItems : api_move_item(item, TRUE, TRUE, 1)
    \/ api_move_end

SpecNames == Init /\ [][NextNames]_vars

\* Scans: a source directory that holds any of four files (three images, one
\* of them in a sub-directory, and a text file), exiftool detected or not when
\* the process started, and each extraction succeeding or failing.
ScanRoot == <<"S">>
ScanSub == [root |-> ScanRoot, sub |-> <<"a">>]
ScanUniverse == {File(TopDir(ScanRoot), "photo", << >>, ".jpg"),
                 File(TopDir(ScanRoot), "photo", << >>, ".JPG"),
                 File(TopDir(ScanRoot), "photo", << >>, ".txt"),
                 File(ScanSub, "photo", << >>, ".jpg")}
ScanDirs == {NoName, ScanRoot, <<"X">>}
Outcomes == {[ok |-> FALSE, people |-> << >>, tags |-> << >>],
             [ok |-> TRUE, people |-> << >>, tags |-> << >>],
             [ok |-> TRUE, people |-> <<"a">>, tags |-> <<"t">>]}

InitScan ==
    /\ fs \in {[p \in P |-> "f1"] : P \in SUBSET ScanUniverse}
    /\ dirs = {TopDir(ScanRoot), ScanSub}
    /\ move_history = << >>
    /\ pc = "idle"
    /\ dest_root = NoName /\ dry_run = FALSE /\ moved = << >> /\ errors = << >>
    /\ count = 0 /\ strategy = "" /\ undone = << >> /\ undone_batches = 0
    /\ moved_list = << >> /\ batch = NoBatch
    /\ resp = NoResp
    /\ items = 0 /\ fsPre = fs /\ dirsPre = dirs /\ histPre = << >>
    /\ fsPrev = << >> /\ roundTrip = FALSE
    /\ shadow = NoShadow /\ ulog = << >>
    /\ nextId = 1 /\ popped = {} /\ evicted = {} /\ fault = "none"
    /\ HAS_EXIFTOOL \in BOOLEAN /\ ScanIdle
    /\ ThreadsIdle

NextScan ==
    \/ \E dir \in ScanDirs : api_scan_begin(dir)
    \/ \E out \in Outcomes : api_scan_item(out)
    \/ api_scan_end
    \/ \E dir \in ScanDirs : api_scan_stream_begin(dir)
    \/ generate_start
    \/ generate_walk
    \/ \E out \in Outcomes : generate_item(out)
    \/ generate_end

SpecScan == InitScan /\ [][NextScan]_vars

\* The stream and the server that pulls it: the generator runs from one yield
\* to the next each time it is asked, and the client may go away whenever the
\* generator is suspended.
NextStream ==
    \/ \E dir \in ScanDirs : api_scan_stream_begin(dir)
    \/ consumer_next
    \/ yield_start
    \/ generate_walk
    \/ \E out \in Outcomes : extract_item(out)
    \/ yield_item
    \/ yield_end
    \/ generate_return
    \/ consumer_close
    \/ stream_teardown

SpecStream == InitScan /\ [][NextStream]_vars

\* Failing deletes: in every item of a real move call and in every record of
\* an undo call os.remove may fail, and so may the rollback that follows, as
\* long as the copies left behind keep the disk within MaxFiles files.
MayFail(rbOk) == rbOk \/ Cardinality(DOMAIN fs) < MaxFiles

NextFault ==
    \/ api_move_begin(DestRoot, FALSE, 1)
    \/ \E item \in PlanItems, rmOk, rbOk \in BOOLEAN :
          MayFail(rbOk) /\ api_move_item(item, rmOk, rbOk, MaxPlan)
    \/ api_move_end
    \/ \E s \in Strategies : api_undo_begin(1, s)
    \/ api_undo_pop
    \/ \E rmOk, rbOk \in BOOLEAN : MayFail(rbOk) /\ api_undo_rec(rmOk, rbOk)
    \/ api_undo_end

SpecFault == Init /\ [][NextFault]_vars

\* One caller and deletes that may fail: move calls, dry or real, and undo
\* calls with either strategy, one after the other; any os.remove of a source
\* may fail, and the rollback that follows succeeds.
NextSafe ==
    \/ \E dry \in BOOLEAN : api_move_begin(DestRoot, dry, MaxBatches)
    \/ \E item \in PlanItems, rmOk \in BOOLEAN : api_move_item(item, rmOk, TRUE, MaxPlan)
    \/ api_move_end
    \/ \E c \in {1, 2}, s \in Strategies : api_undo_begin(c, s)
    \/ api_undo_pop
    \/ \E rmOk \in BOOLEAN : api_undo_rec(rmOk, TRUE)
    \/ api_undo_end

SpecSafe == Init /\ [][NextSafe]_vars

\* Concurrent requests on a full ledger.  The state after n sequential move
\* calls of one item each, which send the first photo to person a, then from
\* there to person b, and so on:
RECURSIVE Filled(_)
Filled(n) ==
    IF n = 0
    THEN [fs |-> InitFiles, dirs |-> makedirs(SrcDirs, TopDir(DestRoot)), h |-> << >>]
    ELSE LET s == Filled(n - 1)
             src == CHOOSE p \in DOMAIN s.fs : s.fs[p] = "f1"
             person == IF n % 2 = 1 THEN <<"a">> ELSE <<"b">>
             st == move_item([fs |-> s.fs, dirs |-> s.dirs, moved |-> << >>,
                              errors |-> << >>], [path |-> src, person |-> person],
                             DestRoot, FALSE, TRUE, TRUE)
             b == [moved |-> st.moved, errors |-> st.errors,
                   meta |-> [destRoot |-> DestRoot, id |-> n]]
         IN [fs |-> st.fs, dirs |-> st.dirs, h |-> record_batch(s.h, b)]

FullLedger == Filled(MOVE_HISTORY_MAX)

InitThreads ==
    /\ fs = FullLedger.fs
    /\ dirs = FullLedger.dirs
    /\ move_history = FullLedger.h
    /\ pc = "idle"
    /\ dest_root = NoName /\ dry_run = FALSE /\ moved = << >> /\ errors = << >>
    /\ count = 0 /\ strategy = "" /\ undone = << >> /\ undone_batches = 0
    /\ moved_list = << >> /\ batch = NoBatch
    /\ resp = NoResp
    /\ items = 0 /\ fsPre = fs /\ dirsPre = dirs /\ histPre = move_history
    /\ fsPrev = << >> /\ roundTrip = FALSE
    /\ shadow = NoShadow /\ ulog = << >>
    /\ nextId = MOVE_HISTORY_MAX + 1 /\ popped = {} /\ evicted = {} /\ fault = "none"
    /\ HAS_EXIFTOOL = TRUE /\ ScanIdle
    /\ ThreadsIdle

\* a photo on disk under its first name, for a person
ThreadItems ==
    {[path |-> p, person |-> q] : p \in {f \in DOMAIN fs : f.ctrs = << >>}, q \in Persons}

NextThreads ==
    \E t \in Threads :
        \/ t_move_begin(t, MaxCalls)
        \/ \E item \in ThreadItems : t_move_item(t, item, 1)
        \/ t_move_test(t)
        \/ t_append(t)
        \/ t_len(t)
        \/ t_slice(t)
        \/ t_assign(t)
        \/ \E c \in {1, 2} : t_undo_begin(t, c, MaxCalls)
        \/ t_while(t)
        \/ t_pop(t)
        \/ t_undo_rec(t)
        \/ t_batch_done(t)

SpecThreads == InitThreads /\ [][NextThreads]_vars

\* Two writers: two request threads, each in a real move call of one plan item,
\* on the two photos; the probe, the copy and the delete of one thread may be
\* interleaved with those of the other.
NextRace ==
    \E t \in Threads :
        \/ t_move_begin(t, MaxCalls)
        \/ \E item \in ThreadItems : t_item_probe(t, item, 1)
        \/ t_item_copy(t)
        \/ t_item_remove(t)
        \/ t_move_test(t)
        \/ t_append(t)
        \/ t_len(t)

SpecRace == Init /\ [][NextRace]_vars

\* Files that vanish: real move calls, undo calls, and a user who deletes one
\* file by hand between two calls.
NextMissing ==
    \/ api_move_begin(DestRoot, FALSE, MaxBatches)
    \/ \E item \in PlanItems : api_move_item(item, TRUE, TRUE, MaxPlan)
    \/ api_move_end
    \/ \E c \in {1, 2}, s \in Strategies : api_undo_begin(c, s)
    \/ api_undo_pop
    \/ api_undo_rec(TRUE, TRUE)
    \/ api_undo_end
    \/ \E p \in DOMAIN fs : ExtRemove(p)

SpecMissing == Init /\ [][NextMissing]_vars

-----------------------------------------------------------------------------
(* Claims *)

\* an upper bound on the counters a probe can reach
MaxProbe == Cardinality(DOMAIN fs) + 1

\* the candidate of a record: its target directory with the base name of its source
Candidate(rec) == [rec.from EXCEPT !.dir = rec.to.dir]

\* path is the candidate, free, or the candidate with the smallest counter that
\* is free in files, the candidate itself being taken
SmallestFree(path, cand, files) ==
    \/ path = cand /\ cand \notin DOMAIN files
    \/ \E i \in 1..(Cardinality(DOMAIN files) + 1) :
          /\ path = with_counter(cand, i)
          /\ cand \in DOMAIN files
          /\ path \notin DOMAIN files
          /\ \A j \in 1..(i - 1) : with_counter(cand, j) \in DOMAIN files

\* the records of m before position i that have the candidate of m[i]
SameBefore(m, i) == {j \in 1..(i - 1) : Candidate(m[j]) = Candidate(m[i])}

\* C1, each copy: a successful item of a real move call is written onto a path
\* that did not exist just before, the candidate or the candidate with the
\* smallest free counter, and every other file keeps its path and content.
C1_Step ==
    (pc = "move" /\ ~dry_run /\ Len(moved') > Len(moved)) =>
        LET rec == moved'[Len(moved')]
        IN /\ rec.to \notin DOMAIN fs
           /\ SmallestFree(rec.to, Candidate(rec), fs)
           /\ rec.to \in DOMAIN fs' /\ fs'[rec.to] = fs[rec.from]
           /\ \A p \in DOMAIN fs \ {rec.from} : p \in DOMAIN fs' /\ fs'[p] = fs[p]

\* C1, the sequence: in a real move call into a person directory that held no
\* file when the call began and that no item is moved out of, the k-th item of
\* those with one candidate lands on the candidate (k = 1) or on the candidate
\* with counter k - 1, when all the items moved there have that candidate.
C1_Sequence ==
    (pc = "move" /\ ~dry_run) =>
        \A i \in 1..Len(moved) :
            LET d == moved[i].to.dir
                k == Cardinality(SameBefore(moved, i))
            IN (/\ \A p \in DOMAIN fsPre : p.dir # d
                /\ \A j \in 1..Len(moved) :
                      /\ moved[j].from.dir # d
                      /\ moved[j].to.dir = d => Candidate(moved[j]) = Candidate(moved[i]))
               => moved[i].to = IF k = 0 THEN Candidate(moved[i])
                                ELSE with_counter(Candidate(moved[i]), k)

\* C1: in one real move call no successful item is written onto a path that
\* existed just before its copy; items with one candidate land on photo.jpg,
\* photo (1).jpg, ... in input order, each on the smallest free counter, and no
\* file already there is overwritten.
C1_NoOverwrite == [][C1_Step]_vars /\ []C1_Sequence

PhotoIn(person, c) == File(join(DestRoot, person), "photo", c, ".jpg")

C1_Witness ==
    /\ pc = "move" /\ ~dry_run /\ Len(moved) = 2
    /\ moved[1].from # moved[2].from
    /\ moved[1].to = PhotoIn(<<"a">>, << >>)
    /\ moved[2].to = PhotoIn(<<"a">>, <<1>>)

\* C2: a real move call returns the moved list and the errors list that the dry
\* run of the same plan returns from the same starting state.
C2_DryRunSameOutput ==
    (pc = "idle" /\ resp.kind = "move" /\ resp.ok /\ ~resp.dry) =>
        /\ resp.moved = shadow.moved
        /\ resp.errors = shadow.errors

\* C3: after a dry-run move call the files and the directories on disk are
\* those from before the call.
C3_DryRunNoMutation ==
    (pc = "idle" /\ resp.kind = "move" /\ resp.dry) =>
        /\ fs = fsPre
        /\ dirs = dirsPre

\* the elements of a sequence
Range(q) == {q[i] : i \in 1..Len(q)}

Later(e, f) == e[1] > f[1] \/ (e[1] = f[1] /\ e[2] > f[2])

\* C5: an undo call visits the records in reverse chronological order: every
\* record it visits was moved later than the record it visits next and later
\* than every record still in the ledger, and the records of a batch not yet
\* visited are those before the ones visited.
C5_ReverseOrder ==
    /\ \A i \in 1..(Len(ulog) - 1) : Later(ulog[i], ulog[i + 1])
    /\ pc = "undo" =>
          /\ \A i \in 1..Len(ulog) : \A j \in 1..Len(move_history) :
                ulog[i][1] > move_history[j].meta.id
          /\ batch # NoBatch =>
                \A j \in 1..Len(move_history) : batch.meta.id > move_history[j].meta.id
          /\ moved_list = SubSeq(batch.moved, 1, Len(moved_list))
          /\ \A i \in 1..Len(ulog) :
                ulog[i][1] = batch.meta.id => ulog[i][2] > Len(moved_list)

C5_Witness ==
    /\ pc = "idle" /\ resp.kind = "undo" /\ resp.undoneBatches = 2
    /\ Len(ulog) = 4
    /\ ulog[1][1] = 2 /\ ulog[1][2] = 2 /\ ulog[4][1] = 1 /\ ulog[4][2] = 1

\* C7: a move call changes the ledger only when it is not a dry run and moved
\* at least one item: then one batch with the call's moved records is appended
\* at the tail (the head leaving a full ledger); otherwise the ledger is as it
\* was when the call began.
C7_LedgerFrame ==
    /\ pc = "move" => move_history = histPre
    /\ (pc = "idle" /\ resp.kind = "move") =>
          IF resp.ok /\ ~resp.dry /\ resp.moved # << >>
          THEN /\ move_history # << >>
               /\ move_history[Len(move_history)].moved = resp.moved
               /\ SubSeq(move_history, 1, Len(move_history) - 1) =
                     IF Len(histPre) < MOVE_HISTORY_MAX THEN histPre ELSE Tail(histPre)
          ELSE move_history = histPre

C7_Witness ==
    /\ pc = "idle" /\ resp.kind = "move" /\ ~resp.dry
    /\ Len(resp.moved) = 2 /\ resp.errors = << >>
    /\ Len(histPre) = 1 /\ Len(move_history) = 2

\* the record an undo step visits
Visited == batch.moved[ulog'[Len(ulog')][2]]
UndoVisits == pc = "undo" /\ Len(ulog') > Len(ulog)

\* C9, each record: with strategy skip a record whose file is at its to path
\* and whose from path exists stays where it is, the file at from is untouched
\* and one error is reported for it; a record whose from path is free is restored.
C9_Step ==
    (UndoVisits /\ strategy = "skip" /\ Visited.to \in DOMAIN fs) =>
        IF Visited.from \in DOMAIN fs
        THEN /\ fs' = fs
             /\ undone' = undone
             /\ Len(errors') = Len(errors) + 1
             /\ SubSeq(errors', 1, Len(errors)) = errors
             /\ errors'[Len(errors')].path \in {Visited.from, Visited.to}
        ELSE /\ Visited.from \in DOMAIN fs' /\ fs'[Visited.from] = fs[Visited.to]
             /\ Visited.to \notin DOMAIN fs'
             /\ undone' = Append(undone, [from |-> Visited.to, to |-> Visited.from])
             /\ errors' = errors

\* C9: in an undo with strategy skip a record whose from path exists stays at
\* its to path with one error, the file at from untouched, and the other
\* records of the call whose from path is free are restored.
C9_SkipKeeps == [][C9_Step]_vars

C9_Witness ==
    /\ pc = "idle" /\ resp.kind = "undo" /\ resp.strategy = "skip"
    /\ Len(resp.undone) = 1 /\ Len(resp.errors) = 1
    /\ resp.errors[1].error = ErrSkipped
    /\ resp.errors[1].path \in DOMAIN fs /\ fs[resp.errors[1].path] = ExtContent
    /\ resp.undoneBatches = 1

\* C10, each record: with strategy unique a record whose file is at its to path
\* and whose from path exists is restored to from with the smallest free
\* counter, the file at from keeps its content, and the record is reported in
\* undone with that path.
C10_Step ==
    (UndoVisits /\ strategy = "unique" /\ Visited.to \in DOMAIN fs
       /\ Visited.from \in DOMAIN fs) =>
        \E i \in 1..MaxProbe :
            LET rp == with_counter(Visited.from, i)
            IN /\ rp \notin DOMAIN fs
               /\ \A j \in 1..(i - 1) : with_counter(Visited.from, j) \in DOMAIN fs
               /\ rp \in DOMAIN fs' /\ fs'[rp] = fs[Visited.to]
               /\ Visited.to \notin DOMAIN fs'
               /\ \A p \in DOMAIN fs \ {Visited.to} : p \in DOMAIN fs' /\ fs'[p] = fs[p]
               /\ undone' = Append(undone, [from |-> Visited.to, to |-> rp])
               /\ errors' = errors

\* C10: in an undo with strategy unique a record whose from path exists is
\* restored to the counter-suffixed path with the smallest free counter, the
\* file at from is not overwritten, and undone reports the disambiguated path.
C10_UniqueRestores == [][C10_Step]_vars

C10_Witness ==
    /\ pc = "idle" /\ resp.kind = "undo" /\ resp.strategy = "unique"
    /\ \E i \in 1..Len(resp.undone) :
          /\ resp.undone[i].to = File(TopDir(<<"S">>), "photo", <<1>>, ".jpg")
          /\ resp.undone[i].to \in DOMAIN fs
          /\ File(TopDir(<<"S">>), "photo", << >>, ".jpg") \in DOMAIN fs
          /\ fs[File(TopDir(<<"S">>), "photo", << >>, ".jpg")] = ExtContent

\* the ids of the batches in the ledger
LedgerIds == {move_history[j].meta.id : j \in 1..Len(move_history)}

\* C6: the ledger holds at most MOVE_HISTORY_MAX batches, in the order they
\* were recorded, and they are the most recent of the recorded batches that no
\* undo has popped: whatever is missing is older than all it holds.
C6_Bounded ==
    /\ Len(move_history) <= MOVE_HISTORY_MAX
    /\ \A i, j \in 1..Len(move_history) :
          i < j => move_history[i].meta.id < move_history[j].meta.id
    /\ LedgerIds \subseteq Live(nextId - 1, popped)
    /\ \A i \in Live(nextId - 1, popped) : \A j \in LedgerIds : i > j => i \in LedgerIds

C6_Witness ==
    /\ pc = "idle"
    /\ Len(move_history) = MOVE_HISTORY_MAX
    /\ move_history[1].meta.id = 2
    /\ move_history[MOVE_HISTORY_MAX].meta.id = MOVE_HISTORY_MAX + 2
    /\ popped = {MOVE_HISTORY_MAX + 1}

\* C8: a batch that was among the oldest in excess of MOVE_HISTORY_MAX when a
\* batch was recorded is never in the ledger again, is never popped by an undo,
\* and none of its records is visited by an undo.
C8_EvictedGone ==
    /\ evicted \cap LedgerIds = {}
    /\ evicted \cap popped = {}
    /\ batch.meta.id \notin evicted
    /\ \A i \in 1..Len(ulog) : ulog[i][1] \notin evicted

C8_Witness ==
    /\ pc = "idle" /\ resp.kind = "undo"
    /\ resp.count = MOVE_HISTORY_MAX + 1
    /\ resp.undoneBatches = MOVE_HISTORY_MAX
    /\ Len(ulog) = MOVE_HISTORY_MAX
    /\ move_history = << >>
    /\ evicted = {1}

\* C11: an undo call with positive count c on a ledger of n batches pops the
\* min(c, n) batches at the tail and reports that number as undoneBatches; on
\* an empty ledger it returns ok with nothing undone and no errors (and a
\* message in place of the number) and leaves the ledger, the files and the
\* directories as they were.
C11_UndoCount ==
    (pc = "idle" /\ resp.kind = "undo" /\ resp.ok) =>
        LET n == Len(histPre)
            k == IF resp.count < n THEN resp.count ELSE n
        IN /\ resp.count > 0
           /\ move_history = SubSeq(histPre, 1, n - k)
           /\ n > 0 => resp.undoneBatches = k /\ k > 0
           /\ n = 0 => /\ resp.undone = << >> /\ resp.errors = << >>
                       /\ move_history = histPre /\ fs = fsPre /\ dirs = dirsPre

C11_Witness ==
    /\ pc = "idle" /\ resp.kind = "undo" /\ resp.ok
    /\ resp.count = 2 /\ Len(histPre) = 1
    /\ resp.undoneBatches = 1 /\ move_history = << >>
    /\ Len(resp.undone) = 2

C11_WitnessEmpty ==
    /\ pc = "idle" /\ resp.kind = "undo" /\ resp.ok
    /\ resp.count = 2 /\ histPre = << >> /\ DOMAIN fs # DOMAIN InitFiles

\* C12, each pop: the batch an undo call pops was never popped before.
C12_Step ==
    (batch' # batch /\ batch' # NoBatch) =>
        /\ batch'.meta.id \notin popped
        /\ batch'.meta.id \in popped'
        /\ batch'.meta.id \notin {move_history'[j].meta.id : j \in 1..Len(move_history')}

\* C12, the ledger: no popped batch is in the ledger, whatever became of its
\* records, and a record an undo visits belongs to the batch popped last.
C12_Gone ==
    /\ popped \cap LedgerIds = {}
    /\ (pc = "undo" /\ batch # NoBatch) => batch.meta.id \in popped
    /\ \A i \in 1..Len(ulog) : ulog[i][1] \in popped /\ ulog[i][1] \notin LedgerIds

\* C12: a batch popped by an undo call is never in the ledger again, even when
\* records of it failed or were skipped, and no later undo call pops it or
\* visits a record of it.
C12_PoppedOnce == [][C12_Step]_vars /\ []C12_Gone

\* an undo call on the ledger left empty by an undo whose only record was
\* skipped: the file is still at its to path and nothing is retried
C12_Witness ==
    /\ pc = "idle" /\ resp.kind = "undo" /\ resp.ok /\ resp.count = 1
    /\ histPre = << >> /\ popped = {1} /\ nextId = 2
    /\ ulog = << >> /\ fs = fsPre
    /\ PhotoIn(<<"a">>, << >>) \in DOMAIN fs /\ fs[PhotoIn(<<"a">>, << >>)] = "f1"
    /\ File(TopDir(<<"S">>), "photo", << >>, ".jpg") \in DOMAIN fs

\* C13: every plan item a move call has consumed is either in moved or in
\* errors: an item with an empty source path, an empty person or a source that
\* is not a file on disk is recorded in errors, and the loop goes on.
C13_InvalidRecorded ==
    /\ pc = "move" => Len(moved) + Len(errors) = items
    /\ (pc = "idle" /\ resp.kind = "move" /\ resp.ok) =>
          Len(resp.moved) + Len(resp.errors) = items

\* the directory name under which a record was planned
DirName(rec) == rec.to.dir.sub

\* C14: the directory name the move planner uses for an item is never empty
\* and holds no character outside the allow-list.
C14_SafeName ==
    \A i \in 1..Len(moved) :
        /\ DirName(moved[i]) # NoName
        /\ \A k \in 1..Len(DirName(moved[i])) : DirName(moved[i])[k] \in AllowedChars

\* the first k events of the stream over the discovered paths
IsItem(e, i) ==
    /\ e.type = "item" /\ e.idx = i /\ e.path = discovered[i]
    /\ extracted[i].path = discovered[i]
    /\ ~extracted[i].ok => (e.people = << >> /\ e.tags = << >>)

\* C15: a stream over the N discovered paths yields start, then one item per
\* path in scanner order with idx its 1-based position (with empty people and
\* tags when the extraction failed), then end with count N, and nothing else;
\* while it runs, what it has yielded is a prefix of that sequence.
C15_StreamOrder ==
    LET N == Len(discovered)
    IN /\ events # << >> => events[1] = StartEvent
       /\ \A i \in 2..Len(events) :
             IF i <= N + 1 THEN IsItem(events[i], i - 1)
             ELSE i = N + 2 /\ events[i] = EndEvent(N)
       /\ spc = "stream_loop" => Len(events) = 1 + idx /\ idx = N - Len(scan_iter)
       /\ spc = "stream_walk" => events = <<StartEvent>> /\ extracted = << >>
       /\ (spc = "idle" /\ sresp.kind = "stream" /\ sresp.ok) => Len(events) = N + 2

C15_Witness ==
    /\ spc = "idle" /\ sresp.kind = "stream" /\ sresp.ok
    /\ Len(discovered) = 3 /\ Len(events) = 5
    /\ ~extracted[2].ok /\ extracted[3].ok
    /\ events[4].idx = 3 /\ events[4].people = <<"a">>
    /\ events[5] = EndEvent(3)

\* the paths of the items a batch scan returned
ItemPaths(its) == {its[i].path : i \in 1..Len(its)}

\* C16: a batch scan returns no item for a path whose extraction failed, and
\* one item, with its own people and tags, for every path whose extraction
\* succeeded.
C16_FailedSkipped ==
    (spc = "idle" /\ sresp.kind = "scan" /\ sresp.ok) =>
        \A i \in 1..Len(extracted) :
            IF extracted[i].ok
            THEN extracted[i].path \in ItemPaths(sresp.items)
            ELSE extracted[i].path \notin ItemPaths(sresp.items)

\* a scan call has touched the directory tree, the extractor or the stream
ScanStarted == discovered # << >> \/ extracted # << >> \/ events # << >>
                 \/ spc \notin {"idle"}

\* C17: a scan call, batch or streaming, on a missing or invalid source
\* directory or without exiftool returns an error, and no traversal, no
\* extraction and no start event came before it; whatever a scan call does it
\* does with a valid source directory and with exiftool.
C17_FailFast ==
    /\ (spc = "idle" /\ sresp.kind \in {"scan", "stream"}
          /\ (sresp.srcDir = NoName \/ ~isdir(sresp.srcDir, dirs) \/ ~HAS_EXIFTOOL)) =>
            /\ ~sresp.ok /\ sresp.error # ""
            /\ discovered = << >> /\ extracted = << >> /\ events = << >>
            /\ sresp.items = << >>
    /\ ScanStarted => (HAS_EXIFTOOL /\ sresp.srcDir # NoName /\ isdir(sresp.srcDir, dirs))

C17_Witness ==
    /\ spc = "idle" /\ sresp.kind = "stream" /\ ~sresp.ok
    /\ sresp.error = ErrNoExiftool /\ sresp.srcDir = ScanRoot
    /\ Cardinality(Images(ScanRoot, fs)) = 3
    /\ events = << >> /\ extracted = << >>

\* the step was an item of a move call or a record of an undo call in which the
\* copy succeeded and os.remove of the old location failed
RemoveFailed == fault' # "none" /\ pc \in {"move", "undo"}

\* the entry the step added to errors
NewError == errors'[Len(errors')]

\* the failure is reported for the old location, nothing is reported as moved
\* or undone, the file is still at its old location and the handler goes on
C18_Reported ==
    /\ Len(errors') = Len(errors) + 1 /\ SubSeq(errors', 1, Len(errors)) = errors
    /\ NewError.error = ErrRemove
    /\ NewError.path \in DOMAIN fs /\ NewError.path \in DOMAIN fs'
    /\ fs'[NewError.path] = fs[NewError.path]
    /\ moved' = moved /\ undone' = undone
    /\ pc' = pc

\* C18 as claimed: when the copy succeeded and the delete of the old location
\* failed, the copy is gone again, the file is only at its old location, the
\* item is in errors and not in moved / undone, and the handler goes on.
C18_RollbackAsClaimed ==
    [][RemoveFailed => (C18_Reported /\ fs' = fs)]_vars

\* C18 as amended: when the copy succeeded and the delete of the old location
\* failed, the item is in errors with the deletion failure and not in moved /
\* undone, the file is still at its old location and the handler goes on; the
\* copy is deleted again and the files are as before the step when that second
\* delete succeeds, and when it fails too the copy stays: the file is at both
\* locations.
C18_Rollback ==
    [][RemoveFailed =>
         /\ C18_Reported
         /\ fault' = "rm" => fs' = fs
         /\ fault' = "rm_rb" =>
               \E q \in DOMAIN fs' \ DOMAIN fs : fs' = copy2(fs, NewError.path, q)]_vars

\* an undo record whose delete failed and was rolled back, of a batch of a move
\* call in which a delete failed and was rolled back too
C18_Witness ==
    /\ pc = "undo" /\ fault = "rm"
    /\ batch.errors # << >> /\ batch.errors[1].error = ErrRemove
    /\ Len(batch.moved) = 1
    /\ undone = << >> /\ Len(errors) = 1 /\ errors[1].error = ErrRemove
    /\ errors[1].path = batch.moved[1].to
    /\ fs = fsPre

\* the records of the batches of a ledger, oldest first
RECURSIVE Records(_)
Records(h) == IF h = << >> THEN << >> ELSE Head(h).moved \o Records(Tail(h))

\* the records in the ledger, then those the running real move call has created
LiveRecords == Records(move_history) \o (IF pc = "move" /\ ~dry_run THEN moved ELSE << >>)

\* C19: the to path of a record created by a real move call differs from the
\* to path of every record in the ledger and of every record created before
\* it in the same call.
C19_UniqueTo ==
    \A i, j \in 1..Len(LiveRecords) : i < j => LiveRecords[i].to # LiveRecords[j].to

\* the ledger after the ledger operation of one call, taken alone
ApplyCall(h, op) ==
    IF op.kind = "undo"
    THEN SubSeq(h, 1, Len(h) - (IF op.count < Len(h) THEN op.count ELSE Len(h)))
    ELSE IF op.batch = NoBatch THEN h ELSE record_batch(h, op.batch)

\* the ledger after the calls in the order ord, one after the other, from h
RECURSIVE Serial(_, _, _)
Serial(h, ord, k) ==
    IF k > Len(ord) THEN h ELSE Serial(ApplyCall(h, calls[ord[k]]), ord, k + 1)

\* the orders of the calls made
Orders ==
    {ord \in [1..Len(calls) -> 1..Len(calls)] :
        \A i, j \in 1..Len(calls) : i # j => ord[i] # ord[j]}

Quiescent == \A t \in Threads : thr[t].pc = "idle"

\* C20: when the threads have returned, the ledger holds at most
\* MOVE_HISTORY_MAX batches and is the ledger that the calls made, run one
\* after the other in some order, leave.
C20_Serializable ==
    Quiescent =>
        /\ Len(move_history) <= MOVE_HISTORY_MAX
        /\ \E ord \in Orders : move_history = Serial(FullLedger.h, ord, 1)

\* the record an undo step visits has no file at its to path
ToMissing == UndoVisits /\ Visited.to \notin DOMAIN fs

\* C21, each record: a record whose to path holds no file adds exactly one
\* error, for that path, changes no file and no directory, reports nothing as
\* undone, and the loop goes on with the records before it.
C21_Step ==
    ToMissing =>
        /\ errors' = Append(errors, [path |-> Visited.to, error |-> ErrMissing])
        /\ fs' = fs /\ dirs' = dirs
        /\ undone' = undone
        /\ pc' = "undo"
        /\ moved_list' = SubSeq(moved_list, 1, Len(moved_list) - 1)
        /\ move_history' = move_history

\* C21, the call: an undo call visits every record of every batch it pops,
\* whatever became of the records visited before.
C21_AllVisited ==
    (pc = "idle" /\ resp.kind = "undo" /\ resp.ok) =>
        /\ Len(ulog) = Len(Records(SubSeq(histPre, Len(move_history) + 1, Len(histPre))))
        /\ resp.undoneBatches > 0 => Len(resp.undone) + Len(resp.errors) = Len(ulog)

\* C21: during undo a record whose to path no longer exists gives exactly one
\* error, changes nothing on disk, and the remaining records of the batch and
\* of the later batches of the call are still undone.
C21_MissingTo == [][C21_Step]_vars /\ []C21_AllVisited

\* the first record visited had lost its file; the record before it and the
\* record of the next batch were undone all the same
C21_Witness ==
    /\ pc = "idle" /\ resp.kind = "undo" /\ resp.undoneBatches = 2
    /\ Len(histPre) = 2 /\ Len(histPre[2].moved) = 2 /\ Len(histPre[1].moved) = 1
    /\ Len(resp.errors) = 1 /\ resp.errors[1].error = ErrMissing
    /\ resp.errors[1].path = histPre[2].moved[2].to
    /\ Len(resp.undone) = 2
    /\ resp.undone[1].from = histPre[2].moved[1].to
    /\ resp.undone[2].from = histPre[1].moved[1].to


\* a real move step has just reported a file that sat in its target directory
\* under its own name already
MovedInPlace ==
    /\ pc = "move" /\ ~dry_run /\ Len(moved') > Len(moved)
    /\ moved'[Len(moved')].from.dir = moved'[Len(moved')].to.dir

C22_Step ==
    MovedInPlace =>
        /\ moved'[Len(moved')].to = moved'[Len(moved')].from
        /\ fs' = fs

\* C22: a real move of a file that is already at destRoot/<person>/<base name>
\* to that same person is a success that leaves the file where it is, neither
\* copied nor renamed.
C22_InPlace == [][C22_Step]_vars


\* a stream is under way, or has been closed and not yet torn down
Streaming == spc \notin {"idle", "scan"}

\* the item events handed to the server so far
ItemsHanded == Cardinality({i \in 1..Len(events) : events[i].type = "item"})

\* C23, laziness: the extraction of path i+1 has begun only when the item event
\* of path i has been handed over and the server has asked for one more event;
\* an extraction whose event is not yet handed over exists only while the
\* generator runs between the extraction and its yield.
C23_Lazy ==
    Streaming =>
        /\ Len(extracted) <= ItemsHanded + 1
        /\ Len(extracted) = ItemsHanded + 1 => spc = "run_item"
        /\ extracted # << >> => Len(extracted) + 1 <= pulls

\* C23, disconnection: once the stream is closed nothing is extracted, handed
\* over or asked for any more.
C23_ClosedStep ==
    spc = "closed" => (extracted' = extracted /\ events' = events /\ pulls' = pulls)

\* C23: the stream is pull-driven.  Once the consumer has disconnected and
\* pulls no more, no further extraction is started, and the extraction for
\* path i+1 begins only after the item event for path i has been handed to the
\* consumer.
C23_PullDriven == []C23_Lazy /\ [][C23_ClosedStep]_vars

\* the client went away after the first of three items: the stream is over
\* with one extraction, and the other two paths were never looked at
C23_Witness ==
    /\ spc = "idle" /\ sresp.kind = "stream" /\ sresp.ok
    /\ Len(discovered) = 3 /\ Len(extracted) = 1 /\ pulls = 2
    /\ Len(events) = 2 /\ events[2].type = "item"


\* the contents on disk
Contents == {fs[p] : p \in DOMAIN fs}

\* the records call i has reported as moved
Reported(i) == {calls[i].batch.moved[k] : k \in 1..Len(calls[i].batch.moved)}

\* two calls have reported the same to path
SameTo(i, j) == \E r \in Reported(i), s \in Reported(j) : r.to = s.to

\* thread t copies onto a path that was free when t probed it and holds a file
\* by now
Overwrites(t) ==
    /\ thr[t].pc = "copy" /\ thr'[t].pc = "remove"
    /\ exists(thr[t].tmp[1].to, fs)

\* C24, each copy: a copy lands on an existing file only when a second call
\* has been started; the file that was there is replaced by the content of the
\* source, and no file is added.
C24_Step ==
    \A t \in Threads :
        Overwrites(t) =>
            /\ Len(calls) >= 2
            /\ fs'[thr[t].tmp[1].to] = fs[thr[t].tmp[1].from]
            /\ DOMAIN fs' = DOMAIN fs

\* C24, a single writer: while at most one call has been started both contents
\* are on disk.
C24_Alone == Len(calls) <= 1 => Contents = {"f1", "f2"}

\* C24: the no-overwrite guarantee holds for a single writer only.  Two
\* concurrent real moves may both pass the existence check for the same
\* candidate and both copy to it; then both sources are deleted, both calls
\* report the same to path as moved, and only one content is left on disk.
C24_Race == []C24_Alone /\ [][C24_Step]_vars

\* both calls have returned, both report D/a/photo.jpg for their own source,
\* both sources are gone, and the only file left on disk is there
C24_Witness ==
    /\ \A t \in Threads : thr[t].pc = "idle"
    /\ Len(calls) = 2 /\ SameTo(1, 2)
    /\ \E r \in Reported(1), s \in Reported(2) : r.to = s.to /\ r.from # s.from
    /\ DOMAIN fs = {PhotoIn(<<"a">>, << >>)}
    /\ \A i \in 1..2 : Reported(i) \subseteq
          {[from |-> p, to |-> PhotoIn(<<"a">>, << >>)] : p \in InitialPaths}


\* the directory d is destRoot/<one directory name>: directly under root, named
\* by something that is neither the directory itself nor its parent and holds
\* no separator
OneBelow(d, root) ==
    /\ d.root = root
    /\ d.sub \notin {NoName, <<".">>, <<".", ".">>}
    /\ \A k \in 1..Len(d.sub) : d.sub[k] # "/"

\* C25: for every plan item with a non-empty person the to path is
\* destRoot/<one directory name>/<base name>; no person name places a file
\* outside the destination root.
C25_InsideDestRoot ==
    pc = "move" =>
        \A k \in 1..Len(moved) :
            /\ OneBelow(moved[k].to.dir, dest_root)
            /\ moved[k].to.stem = moved[k].from.stem
            /\ moved[k].to.ext = moved[k].from.ext


\* the paths that hold content c
PathsOf(c) == {p \in DOMAIN fs : fs[p] = c}

\* C26: no data loss.  Whatever move and undo calls one caller issues, dry or
\* real, with either strategy, with deletes that fail and are rolled back,
\* every file that existed at the start exists with its content at exactly one
\* path, and the number of files is what it was.
C26_NoDataLoss ==
    /\ \A p \in InitialPaths : Cardinality(PathsOf(InitFiles[p])) = 1
    /\ Cardinality(DOMAIN fs) = Cardinality(InitialPaths)

\* in an undo call the delete of a moved file has just failed and the copy at
\* its original path has been rolled back: the file is still in the
\* destination, once
C26_Witness ==
    /\ pc = "undo" /\ fault = "rm"
    /\ Len(errors) = 1 /\ errors[1].error = ErrRemove
    /\ \E p \in DOMAIN fs : p.dir.root = DestRoot /\ p = errors[1].path
    /\ histPre # << >>

====
